---- MODULE Spec2Model ----
(***************************************************************************)
(* Model of src/predict.py: a Flask service that loads a regression model  *)
(* with joblib at import time and answers POST /predict.                   *)
(*                                                                         *)
(* The process is modelled from the first statement of the module (the     *)
(* joblib.load of line 7) to the serving loop entered by app.run, and      *)
(* every request is followed statement by statement through predict()      *)
(* (lines 15, 18, 19, 22, 25) on one of the worker threads of the server.  *)
(* A worker keeps the response it produced until the client has taken it   *)
(* (action Finish), so responses to different requests can be compared.    *)
(***************************************************************************)
EXTENDS Integers, FiniteSets, Sequences, TLC

\* Largest numeric score a client sends; scores are drawn from 0..MaxNum.
MaxNum == 1

\* Worker threads of the WSGI server that run predict() concurrently.
Threads == {"w1", "w2"}

\* The two feature names read at lines 18 and 19.
Keys == {"engagement_score", "experience_score"}

(***************************************************************************)
(* Values.  A JSON value and a Python value are records of one shape:      *)
(* kind, n (the number of a numeric value), s (the text of a string) and   *)
(* items (the members of an object / dict, a function from keys to         *)
(* values).  The contents of arrays are not read by the program and are    *)
(* left out.                                                               *)
(***************************************************************************)
EmptyDict == [k \in {} |-> 0]

Val(kind, n, s, items) == [kind |-> kind, n |-> n, s |-> s, items |-> items]

JNum(n) == Val("number", n, "", EmptyDict)
JStr(s) == Val("string", 0, s, EmptyDict)
JNull == Val("null", 0, "", EmptyDict)
JArr == Val("array", 0, "", EmptyDict)
JObj(items) == Val("object", 0, "", items)

PyInt(n) == Val("int", n, "", EmptyDict)
PyFloat(n) == Val("float", n, "", EmptyDict)
PyStr(s) == Val("str", 0, s, EmptyDict)
PyNone == Val("NoneType", 0, "", EmptyDict)
PyList == Val("list", 0, "", EmptyDict)
PyDict(items) == Val("dict", 0, "", items)
Unbound == Val("unbound", 0, "", EmptyDict)

\* The values a client puts in a field: numbers, a non-numeric string, null,
\* a nested array.
NumberValues == {JNum(n) : n \in 0..MaxNum}
NonNumberValues == {JStr("abc"), JNull, JArr}
FieldValues == NumberValues \cup NonNumberValues

\* JSON objects over the two feature names, each present or absent.
ObjectDocs == {JObj(f) : f \in UNION {[D -> FieldValues] : D \in SUBSET Keys}}

\* JSON documents that are not objects.
NonObjectDocs == {JNull, JArr, JNum(MaxNum), JStr("abc")}

Docs == ObjectDocs \cup NonObjectDocs

\* An HTTP request: its Content-Type, what its body is (empty, not JSON, or
\* a JSON text) and, for a JSON text, the document.
Req(mime, text, doc) == [mime |-> mime, text |-> text, doc |-> doc]

NoRequest == Req("none", "none", JNull)

JsonRequests ==
    {Req("application/json", "json", d) : d \in Docs}
        \cup {Req("application/json", x, JNull) : x \in {"empty", "garbage"}}

\* Requests sent without a JSON Content-Type (curl -d without -H): get_json
\* does not read their body, so only complete numeric objects are sent.
OtherRequests ==
    {Req("text/plain", "json", JObj(f)) : f \in [Keys -> NumberValues]}
        \cup {Req("text/plain", x, JNull) : x \in {"empty", "garbage"}}

Requests == JsonRequests \cup OtherRequests

\* The artifacts model.joblib may hold, and the states of the file.
Models == {"A", "B"}
FileStates == Models \cup {"missing", "corrupt"}

\* What Request.get_json() does with a body whose Content-Type is not JSON:
\* Werkzeug before 2.1 returns None, 2.1 and 2.2 raise BadRequest, 2.3 and
\* later raise UnsupportedMediaType.  The repository pins no version.
FlaskBuilds == {"returns_none", "raises_400", "raises_415"}

VARIABLES
    phase,            \* position of the module's top-level code
    file,             \* what is at 'model.joblib'
    flask,            \* the installed framework's get_json behaviour
    model,            \* the module global `model`
    loadCalls,        \* number of joblib.load calls made
    pc,               \* per worker: position in predict()
    req,              \* per worker: the request being handled
    data,             \* per worker: local `data`
    engagement_score, \* per worker: local `engagement_score`
    experience_score, \* per worker: local `experience_score`
    prediction,       \* per worker: local `prediction`
    calls,            \* per worker: model.predict calls made for the request
    exc,              \* per worker: the exception that left predict()
    resp,             \* per worker: the response produced
    prevFailed        \* per worker: its previous request died in model.predict

vars == <<phase, file, flask, model, loadCalls, pc, req, data,
          engagement_score, experience_score, prediction, calls, exc, resp,
          prevFailed>>

locals == <<data, engagement_score, experience_score, prediction>>
process == <<phase, file, flask, model, loadCalls>>

NoExc == [type |-> "none", line |-> 0]
NoResp == [status |-> 0, json |-> EmptyDict]

(***************************************************************************)
(* Line 7: model = joblib.load('model.joblib')                             *)
(***************************************************************************)
\* Faulty variant: the load error is swallowed and startup goes on.
LoadResultLenient(f) ==
    IF f \in Models THEN [ok |-> TRUE, model |-> f]
    ELSE [ok |-> TRUE, model |-> "unset"]

LoadResult(f) ==
    IF f \in Models THEN [ok |-> TRUE, model |-> f]
    ELSE [ok |-> FALSE, model |-> "unset"]

(***************************************************************************)
(* json.loads as get_json applies it: JSON kinds become Python types.      *)
(***************************************************************************)
PyKind(k) ==
    CASE k = "object" -> "dict"
      [] k = "array" -> "list"
      [] k = "null" -> "NoneType"
      [] k = "number" -> "int"
      [] k = "string" -> "str"

LoadsLeaf(j) == Val(PyKind(j.kind), j.n, j.s, EmptyDict)

Loads(j) ==
    Val(PyKind(j.kind), j.n, j.s, [k \in DOMAIN j.items |-> LoadsLeaf(j.items[k])])

(***************************************************************************)
(* Line 15: data = request.get_json()                                      *)
(***************************************************************************)
Returned(v) == [raised |-> "none", value |-> v]
Raised(type) == [raised |-> type, value |-> Unbound]

\* Faulty variant: get_json(silent=True) or {} in place of get_json().
GetJsonLenient(build, r) ==
    IF r.mime = "application/json" /\ r.text = "json"
    THEN Returned(Loads(r.doc))
    ELSE Returned(PyDict(EmptyDict))

GetJson(build, r) ==
    IF r.mime # "application/json"
    THEN CASE build = "returns_none" -> Returned(PyNone)
           [] build = "raises_400" -> Raised("BadRequest")
           [] build = "raises_415" -> Raised("UnsupportedMediaType")
    ELSE IF r.text = "json"
         THEN Returned(Loads(r.doc))
         ELSE Raised("BadRequest")

(***************************************************************************)
(* Lines 18-19: data.get(key, 0)                                           *)
(***************************************************************************)
\* Faulty variant: any parsed value is treated as a dict.
HasGetLenient(v) == TRUE

HasGet(v) == v.kind = "dict"

\* Faulty variant: a present value that is not a number is replaced by the
\* default.
DictGetCoercing(d, key, default) ==
    IF key \in DOMAIN d.items /\ d.items[key].kind = "int"
    THEN d.items[key]
    ELSE default

\* Faulty variant: the default differs from the one passed.
DictGetDefaultOne(d, key, default) ==
    IF key \in DOMAIN d.items THEN d.items[key] ELSE PyInt(default.n + 1)

DictGet(d, key, default) ==
    IF key \in DOMAIN d.items THEN d.items[key] ELSE default

(***************************************************************************)
(* Line 22: model.predict([[engagement_score, experience_score]])[0]       *)
(***************************************************************************)
Other(t) == CHOOSE u \in Threads : u # t

\* Faulty variant: the two columns in the other order.
FeatureRowSwapped(t) == <<experience_score[t], engagement_score[t]>>

\* Faulty variant: the scores are kept in globals shared by the workers.
FeatureRowShared(t) ==
    IF pc[Other(t)] = "line22"
    THEN <<engagement_score[Other(t)], experience_score[Other(t)]>>
    ELSE <<engagement_score[t], experience_score[t]>>

FeatureRow(t) == <<engagement_score[t], experience_score[t]>>

\* The estimator validates its input as a numeric array: a string, None
\* (NaN) or a ragged row is rejected with ValueError.
ModelAccepts(row) == \A i \in 1..Len(row) : row[i].kind \in {"int", "float"}

\* The fitted regression functions: coefficients of the two columns and the
\* intercept.
Coef(m) == IF m = "A" THEN <<2, 1, 0>> ELSE <<1, 3, 1>>

\* Faulty variant: predicting changes the estimator's state.
ModelOutputDrifting(m, row) ==
    Coef(m)[1] * row[1].n + Coef(m)[2] * row[2].n + Coef(m)[3]
        + Cardinality({u \in Threads : pc[u] = "responded"})

ModelOutput(m, row) ==
    Coef(m)[1] * row[1].n + Coef(m)[2] * row[2].n + Coef(m)[3]

(***************************************************************************)
(* Lines 25-28: jsonify({...})                                             *)
(***************************************************************************)
\* Faulty variant: the version is taken from the loaded artifact.
ModelVersionOfModel == IF model = "A" THEN "1.0.0" ELSE "2.0.0"

ModelVersion == "1.0.0"

DumpsLeaf(v) ==
    CASE v.kind \in {"int", "float"} -> JNum(v.n)
      [] v.kind = "str" -> JStr(v.s)
      [] OTHER -> JNull

Jsonify(d) == [status |-> 200, json |-> [k \in DOMAIN d |-> DumpsLeaf(d[k])]]

(***************************************************************************)
(* The framework's answer to an exception that leaves the view function:   *)
(* an HTTPException carries its own status, anything else is a 500; the    *)
(* body is the framework's HTML page, not JSON.                            *)
(***************************************************************************)
\* Faulty variant: the exception is caught and reported as a JSON error.
ErrorResponseStructured(e) ==
    [status |-> 400, json |-> [error |-> JStr(e.type)]]

ErrorResponse(e) ==
    [status |-> CASE e.type = "BadRequest" -> 400
                  [] e.type = "UnsupportedMediaType" -> 415
                  [] OTHER -> 500,
     json |-> EmptyDict]

(***************************************************************************)
(* The state after the interpreter has started and before line 7 runs.     *)
(***************************************************************************)
Init ==
    /\ phase = "boot"
    /\ file \in FileStates
    /\ flask \in FlaskBuilds
    /\ model = "unset"
    /\ loadCalls = 0
    /\ pc = [t \in Threads |-> "idle"]
    /\ req = [t \in Threads |-> NoRequest]
    /\ data = [t \in Threads |-> Unbound]
    /\ engagement_score = [t \in Threads |-> Unbound]
    /\ experience_score = [t \in Threads |-> Unbound]
    /\ prediction = [t \in Threads |-> Unbound]
    /\ calls = [t \in Threads |-> 0]
    /\ exc = [t \in Threads |-> NoExc]
    /\ resp = [t \in Threads |-> NoResp]
    /\ prevFailed = [t \in Threads |-> FALSE]

workers == <<pc, req, data, engagement_score, experience_score, prediction,
             calls, exc, resp, prevFailed>>

\* Line 7.  An exception of joblib.load is not caught: the import dies.
LoadModel ==
    /\ phase = "boot"
    /\ loadCalls' = loadCalls + 1
    /\ model' = LoadResult(file).model
    /\ phase' = IF LoadResult(file).ok THEN "loaded" ELSE "crashed"
    /\ UNCHANGED <<file, flask, workers>>

\* Line 10: app = Flask(__name__)
CreateApp ==
    /\ phase = "loaded"
    /\ phase' = "app_created"
    /\ UNCHANGED <<file, flask, model, loadCalls, workers>>

\* Line 12: @app.route('/predict', methods=['POST'])
RegisterRoute ==
    /\ phase = "app_created"
    /\ phase' = "routed"
    /\ UNCHANGED <<file, flask, model, loadCalls, workers>>

\* Line 31: app.run(host='0.0.0.0', port=5000)
Run ==
    /\ phase = "routed"
    /\ phase' = "serving"
    /\ UNCHANGED <<file, flask, model, loadCalls, workers>>

\* The server hands a POST /predict to an idle worker, which enters predict().
Receive(t, r) ==
    /\ phase = "serving"
    /\ pc[t] = "idle"
    /\ req' = [req EXCEPT ![t] = r]
    /\ pc' = [pc EXCEPT ![t] = "line15"]
    /\ UNCHANGED <<process, locals, calls, exc, resp, prevFailed>>

\* Line 15: data = request.get_json()
ParseBody(t) ==
    /\ pc[t] = "line15"
    /\ LET got == GetJson(flask, req[t]) IN
        IF got.raised = "none"
        THEN /\ data' = [data EXCEPT ![t] = got.value]
             /\ pc' = [pc EXCEPT ![t] = "line18"]
             /\ exc' = exc
        ELSE /\ exc' = [exc EXCEPT ![t] = [type |-> got.raised, line |-> 15]]
             /\ pc' = [pc EXCEPT ![t] = "raised"]
             /\ data' = data
    /\ UNCHANGED <<process, req, engagement_score, experience_score,
                   prediction, calls, resp, prevFailed>>

\* Line 18: engagement_score = data.get('engagement_score', 0)
GetEngagement(t) ==
    /\ pc[t] = "line18"
    /\ IF HasGet(data[t])
       THEN /\ engagement_score' =
                  [engagement_score EXCEPT
                      ![t] = DictGet(data[t], "engagement_score", PyInt(0))]
            /\ pc' = [pc EXCEPT ![t] = "line19"]
            /\ exc' = exc
       ELSE /\ exc' = [exc EXCEPT ![t] = [type |-> "AttributeError", line |-> 18]]
            /\ pc' = [pc EXCEPT ![t] = "raised"]
            /\ engagement_score' = engagement_score
    /\ UNCHANGED <<process, req, data, experience_score, prediction, calls,
                   resp, prevFailed>>

\* Line 19: experience_score = data.get('experience_score', 0)
GetExperience(t) ==
    /\ pc[t] = "line19"
    /\ IF HasGet(data[t])
       THEN /\ experience_score' =
                  [experience_score EXCEPT
                      ![t] = DictGet(data[t], "experience_score", PyInt(0))]
            /\ pc' = [pc EXCEPT ![t] = "line22"]
            /\ exc' = exc
       ELSE /\ exc' = [exc EXCEPT ![t] = [type |-> "AttributeError", line |-> 19]]
            /\ pc' = [pc EXCEPT ![t] = "raised"]
            /\ experience_score' = experience_score
    /\ UNCHANGED <<process, req, data, engagement_score, prediction, calls,
                   resp, prevFailed>>

\* Line 22: prediction = model.predict([[engagement_score, experience_score]])[0]
\* The global is read, never assigned.
Predict(t) ==
    /\ pc[t] = "line22"
    /\ calls' = [calls EXCEPT ![t] = @ + 1]
    /\ IF model \in Models /\ ModelAccepts(FeatureRow(t))
       THEN /\ prediction' =
                  [prediction EXCEPT
                      ![t] = PyFloat(ModelOutput(model, FeatureRow(t)))]
            /\ pc' = [pc EXCEPT ![t] = "line25"]
            /\ exc' = exc
       ELSE /\ exc' = [exc EXCEPT
                          ![t] = [type |-> IF model \in Models
                                           THEN "ValueError"
                                           ELSE "AttributeError",
                                  line |-> 22]]
            /\ pc' = [pc EXCEPT ![t] = "raised"]
            /\ prediction' = prediction
    /\ UNCHANGED <<process, req, data, engagement_score, experience_score,
                   resp, prevFailed>>

\* Lines 25-28: return jsonify({...}); the frame's locals are gone.
Respond(t) ==
    /\ pc[t] = "line25"
    /\ resp' = [resp EXCEPT
                   ![t] = Jsonify([satisfaction_score |-> prediction[t],
                                   model_version |-> PyStr(ModelVersion)])]
    /\ pc' = [pc EXCEPT ![t] = "responded"]
    /\ data' = [data EXCEPT ![t] = Unbound]
    /\ engagement_score' = [engagement_score EXCEPT ![t] = Unbound]
    /\ experience_score' = [experience_score EXCEPT ![t] = Unbound]
    /\ prediction' = [prediction EXCEPT ![t] = Unbound]
    /\ UNCHANGED <<process, req, calls, exc, prevFailed>>

\* predict() has no try/except: the exception reaches the framework, which
\* answers for it.
HandleException(t) ==
    /\ pc[t] = "raised"
    /\ resp' = [resp EXCEPT ![t] = ErrorResponse(exc[t])]
    /\ pc' = [pc EXCEPT ![t] = "responded"]
    /\ data' = [data EXCEPT ![t] = Unbound]
    /\ engagement_score' = [engagement_score EXCEPT ![t] = Unbound]
    /\ experience_score' = [experience_score EXCEPT ![t] = Unbound]
    /\ prediction' = [prediction EXCEPT ![t] = Unbound]
    /\ UNCHANGED <<process, req, calls, exc, prevFailed>>

\* The client has the response; the worker is free for the next request.
Finish(t) ==
    /\ pc[t] = "responded"
    /\ prevFailed' = [prevFailed EXCEPT ![t] = (exc[t].line = 22)]
    /\ pc' = [pc EXCEPT ![t] = "idle"]
    /\ req' = [req EXCEPT ![t] = NoRequest]
    /\ calls' = [calls EXCEPT ![t] = 0]
    /\ exc' = [exc EXCEPT ![t] = NoExc]
    /\ resp' = [resp EXCEPT ![t] = NoResp]
    /\ UNCHANGED <<process, locals>>

Next ==
    \/ LoadModel
    \/ CreateApp
    \/ RegisterRoute
    \/ Run
    \/ \E t \in Threads, r \in Requests : Receive(t, r)
    \/ \E t \in Threads : ParseBody(t)
    \/ \E t \in Threads : GetEngagement(t)
    \/ \E t \in Threads : GetExperience(t)
    \/ \E t \in Threads : Predict(t)
    \/ \E t \in Threads : Respond(t)
    \/ \E t \in Threads : HandleException(t)
    \/ \E t \in Threads : Finish(t)

Spec == Init /\ [][Next]_vars

(***************************************************************************)
(* Vocabulary of the properties.                                           *)
(***************************************************************************)
Done(t) == pc[t] = "responded"

\* The request carries a JSON text under a JSON Content-Type.
IsJson(r) == r.mime = "application/json" /\ r.text = "json"

IsJsonObject(r) == IsJson(r) /\ r.doc.kind = "object"

\* The body is empty or is not JSON.
NotJsonBody(r) == r.text \in {"empty", "garbage"}

AllNumbers(r) == \A k \in DOMAIN r.doc.items : r.doc.items[k].kind = "number"

HasNonNumber(r) == \E k \in DOMAIN r.doc.items : r.doc.items[k].kind # "number"

ValidNumeric(r) ==
    IsJsonObject(r) /\ DOMAIN r.doc.items = Keys /\ AllNumbers(r)

\* The number a request gives for a feature, 0 when it gives none.
NumberOrZero(r, k) ==
    IF k \in DOMAIN r.doc.items THEN r.doc.items[k].n ELSE 0

\* The model's output for the request's own two scores, in the order
\* [engagement_score, experience_score].
OwnOutput(r) ==
    ModelOutput(model, <<PyInt(NumberOrZero(r, "engagement_score")),
                         PyInt(NumberOrZero(r, "experience_score"))>>)

\* The request with every absent field written out as 0.
ZeroFilled(r) ==
    Req(r.mime, r.text,
        JObj([k \in Keys |-> IF k \in DOMAIN r.doc.items
                             THEN r.doc.items[k] ELSE JNum(0)]))

\* The request with every absent or non-numeric field written out as 0.
ZeroCoerced(r) ==
    Req(r.mime, r.text,
        JObj([k \in Keys |->
                 IF k \in DOMAIN r.doc.items /\ r.doc.items[k].kind = "number"
                 THEN r.doc.items[k] ELSE JNum(0)]))

ScoreOf(t) ==
    IF "satisfaction_score" \in DOMAIN resp[t].json
    THEN resp[t].json["satisfaction_score"]
    ELSE JNull

VersionOf(t) ==
    IF "model_version" \in DOMAIN resp[t].json
    THEN resp[t].json["model_version"]
    ELSE JNull

(***************************************************************************)
(* C1: a JSON request whose two fields are numbers e0, e1 is answered 200  *)
(* with satisfaction_score = model.predict([[e0, e1]])[0], engagement      *)
(* first and experience second, after exactly one call of the model.       *)
(***************************************************************************)
C1_PredictionOfRow ==
    \A t \in Threads :
        (Done(t) /\ ValidNumeric(req[t])) =>
            /\ resp[t].status = 200
            /\ ScoreOf(t) =
                 JNum(Coef(model)[1] * req[t].doc.items["engagement_score"].n
                      + Coef(model)[2] * req[t].doc.items["experience_score"].n
                      + Coef(model)[3])
            /\ calls[t] = 1

C1_Witness ==
    \E t \in Threads :
        /\ Done(t) /\ ValidNumeric(req[t])
        /\ req[t].doc.items["engagement_score"].n = 1
        /\ req[t].doc.items["experience_score"].n = 0
        /\ resp[t].status = 200

(***************************************************************************)
(* C2: a request that omits a field gets the response of the request that  *)
(* gives that field as 0, for {} and for either field alone with any       *)
(* number.                                                                 *)
(***************************************************************************)
C2_OmittedIsZero ==
    \A t, u \in Threads :
        (/\ Done(t) /\ Done(u)
         /\ IsJsonObject(req[t]) /\ AllNumbers(req[t])
         /\ DOMAIN req[t].doc.items # Keys
         /\ req[u] = ZeroFilled(req[t])) =>
            resp[t] = resp[u]

C2_Witness ==
    \E t, u \in Threads :
        /\ Done(t) /\ Done(u)
        /\ IsJsonObject(req[t])
        /\ DOMAIN req[t].doc.items = {"experience_score"}
        /\ req[t].doc.items["experience_score"] = JNum(1)
        /\ req[u] = ZeroFilled(req[t])
        /\ resp[t].status = 200

(***************************************************************************)
(* C3 as stated: a field that is absent or present with a value that is    *)
(* not a number is treated as 0, so the response is that of the request    *)
(* with 0 in its place.                                                    *)
(***************************************************************************)
C3_Original ==
    \A t, u \in Threads :
        (/\ Done(t) /\ Done(u)
         /\ IsJsonObject(req[t])
         /\ req[u] = ZeroCoerced(req[t])) =>
            resp[t] = resp[u]

(***************************************************************************)
(* C3 amended: only an absent field becomes 0.  A present value that is    *)
(* not a number reaches model.predict as it was sent, and the request is   *)
(* not answered 200.                                                       *)
(***************************************************************************)
C3_Amended ==
    \A t \in Threads :
        IsJsonObject(req[t]) =>
            /\ pc[t] \in {"line19", "line22"} =>
                 engagement_score[t] =
                    IF "engagement_score" \in DOMAIN req[t].doc.items
                    THEN LoadsLeaf(req[t].doc.items["engagement_score"])
                    ELSE PyInt(0)
            /\ pc[t] = "line22" =>
                 experience_score[t] =
                    IF "experience_score" \in DOMAIN req[t].doc.items
                    THEN LoadsLeaf(req[t].doc.items["experience_score"])
                    ELSE PyInt(0)
            /\ (Done(t) /\ HasNonNumber(req[t])) => resp[t].status # 200

C3_Witness ==
    \E t \in Threads :
        /\ pc[t] = "line22"
        /\ engagement_score[t] = PyNone
        /\ experience_score[t] = PyInt(0)
        /\ "experience_score" \notin DOMAIN req[t].doc.items

(***************************************************************************)
(* C4 as stated: a request whose body is not JSON or is empty is answered  *)
(* with HTTP 500, without a call of the model.                             *)
(***************************************************************************)
C4_Original ==
    \A t \in Threads :
        (Done(t) /\ NotJsonBody(req[t])) =>
            /\ resp[t].status = 500
            /\ calls[t] = 0

(***************************************************************************)
(* C4 amended: such a request never reaches the model and is never         *)
(* answered 200; the answer is an unstructured error whose status is 400   *)
(* under a JSON Content-Type (BadRequest raised by get_json) and 500, 400  *)
(* or 415, by framework version, under any other Content-Type.             *)
(***************************************************************************)
C4_Amended ==
    \A t \in Threads :
        NotJsonBody(req[t]) =>
            /\ pc[t] \notin {"line19", "line22", "line25"}
            /\ calls[t] = 0
            /\ Done(t) =>
                 /\ resp[t].json = EmptyDict
                 /\ resp[t].status =
                      IF req[t].mime = "application/json" THEN 400
                      ELSE CASE flask = "returns_none" -> 500
                             [] flask = "raises_400" -> 400
                             [] flask = "raises_415" -> 415
                 /\ exc[t].line = IF resp[t].status = 500 THEN 18 ELSE 15

C4_Witness ==
    \E t, u \in Threads :
        /\ Done(t) /\ Done(u)
        /\ req[t] = Req("application/json", "garbage", JNull)
        /\ req[u] = Req("text/plain", "empty", JNull)
        /\ resp[t].status = 400
        /\ resp[u].status = 500

(***************************************************************************)
(* C5: a JSON object with a field the model cannot accept is answered 500  *)
(* without a JSON body; the exception is raised by model.predict (line 22) *)
(* and leaves predict() uncaught; the process keeps serving with the model *)
(* it loaded.                                                              *)
(***************************************************************************)
C5_ModelFailureIs500 ==
    \A t \in Threads :
        /\ (IsJsonObject(req[t]) /\ HasNonNumber(req[t])) =>
              /\ pc[t] # "line25"
              /\ Done(t) =>
                   /\ resp[t] = [status |-> 500, json |-> EmptyDict]
                   /\ exc[t] = [type |-> "ValueError", line |-> 22]
                   /\ calls[t] = 1
        /\ prevFailed[t] => (phase = "serving" /\ model = file)

C5_Witness ==
    \E t \in Threads :
        /\ prevFailed[t]
        /\ Done(t)
        /\ resp[t].status = 200

(***************************************************************************)
(* C6 as stated: the response is a function of the request body and the    *)
(* loaded model only, so two requests with the same body get the same      *)
(* response.                                                               *)
(***************************************************************************)
C6_Original ==
    \A t, u \in Threads :
        (/\ Done(t) /\ Done(u)
         /\ req[t].text = req[u].text
         /\ req[t].doc = req[u].doc) =>
            resp[t] = resp[u]

(***************************************************************************)
(* C6 amended: two identical requests (same Content-Type and same body)    *)
(* get identical responses whatever else was or is being handled, and      *)
(* serving leaves the loaded model as it was.                              *)
(***************************************************************************)
C6_Amended ==
    /\ \A t, u \in Threads :
          (Done(t) /\ Done(u) /\ req[t] = req[u]) => resp[t] = resp[u]
    /\ phase = "serving" => model = file

C6_Witness ==
    \E t, u \in Threads :
        /\ t # u
        /\ Done(t) /\ Done(u)
        /\ req[t] = req[u]
        /\ resp[t].status = 200
        /\ ScoreOf(t).n > 0
        /\ prevFailed[u]

(***************************************************************************)
(* C7: every 200 response carries model_version "1.0.0", whatever the      *)
(* request, the model and the requests before it.                          *)
(***************************************************************************)
C7_VersionLiteral ==
    \A t \in Threads :
        (Done(t) /\ resp[t].status = 200) => VersionOf(t) = JStr("1.0.0")

C7_Witness ==
    \E t \in Threads :
        /\ Done(t)
        /\ resp[t].status = 200
        /\ model = "B"
        /\ prevFailed[t]
        /\ DOMAIN req[t].doc.items = {}

(***************************************************************************)
(* C8: joblib.load is called exactly once, before the app exists, before   *)
(* the route is registered and before any request is taken; when the file  *)
(* is missing or corrupt the process dies there and never takes a request. *)
(***************************************************************************)
C8_LoadThenServe ==
    /\ loadCalls <= 1
    /\ phase \in {"loaded", "app_created", "routed", "serving"} =>
          (loadCalls = 1 /\ model \in Models /\ model = file)
    /\ file \notin Models =>
          (phase \in {"boot", "crashed"} /\ model = "unset")
    /\ \A t \in Threads :
          pc[t] # "idle" =>
              (phase = "serving" /\ loadCalls = 1 /\ model \in Models)

C8_Witness ==
    \E t \in Threads :
        /\ phase = "serving"
        /\ loadCalls = 1
        /\ pc[t] = "line22"

(***************************************************************************)
(* C9: under every interleaving of the workers the global model is never   *)
(* assigned or reloaded after startup, and what a worker predicts and      *)
(* returns is computed from the two fields of its own request.             *)
(***************************************************************************)
C9_OwnFields ==
    \A t \in Threads :
        (IsJsonObject(req[t]) /\ AllNumbers(req[t])) =>
            /\ pc[t] = "line25" => prediction[t] = PyFloat(OwnOutput(req[t]))
            /\ Done(t) => ScoreOf(t) = JNum(OwnOutput(req[t]))

C9_ReadOnlyModel ==
    /\ []C9_OwnFields
    /\ [][phase = "serving" => (model' = model /\ loadCalls' = loadCalls)]_vars

C9_Witness ==
    \E t, u \in Threads :
        /\ pc[t] = "line25" /\ pc[u] = "line25"
        /\ prediction[t] # prediction[u]

(***************************************************************************)
(* C10: a JSON body that is not an object (null, an array, a number, a     *)
(* string) dies with AttributeError at the first data.get (line 18): the   *)
(* model is not called and no 200 with default features is returned.       *)
(***************************************************************************)
C10_NonObjectFails ==
    \A t \in Threads :
        (IsJson(req[t]) /\ req[t].doc.kind # "object") =>
            /\ pc[t] \notin {"line19", "line22", "line25"}
            /\ calls[t] = 0
            /\ Done(t) =>
                 /\ resp[t] = [status |-> 500, json |-> EmptyDict]
                 /\ exc[t] = [type |-> "AttributeError", line |-> 18]

C10_Witness ==
    \E t, u \in Threads :
        /\ Done(t) /\ Done(u)
        /\ req[t].doc = JArr /\ IsJson(req[t])
        /\ req[u].doc = JNull /\ IsJson(req[u])
        /\ resp[t].status = 500

====
